---- MODULE Spec2Model ----
(***************************************************************************)
(* Brain-tumor MRI classification inference service.                       *)
(*                                                                         *)
(* One worker process: the lifespan manager (main.py lifespan) that loads  *)
(* the model into ml_models and clears it on shutdown, and the /predict    *)
(* handler (main.py predict_image) with its two atomic sections, split at  *)
(* the single await of the handler (await file.read()).  The pure part of  *)
(* predictor.predict (softmax, max, zip with the class names) is modelled  *)
(* in fixed-point arithmetic with IEEE NaN/Inf propagation.                *)
(***************************************************************************)
EXTENDS Integers, Sequences, FiniteSets, TLC

VARIABLES
    phase,       \* position of lifespan: "starting", "serving", "stopped", "exited"
    ml_models,   \* main.py ml_models: the dict holding the model
    loads,       \* number of times ml_models received a model
    load_result, \* what load_model returned or raised at startup
    reqs,        \* the requests of this worker, by id
    outputs,     \* predictor unit: the logit vector under test
    result       \* predictor unit: what predict returned for outputs

vars == <<phase, ml_models, loads, load_result, reqs, outputs, result>>

----------------------------------------------------------------------------
(* Bounds *)

MaxRequests == 2
MaxLogit == 2

Requests == 1..MaxRequests

----------------------------------------------------------------------------
(* config.py, main.py constants *)

MAX_FILE_SIZE == 5 * 1024 * 1024

NUM_CLASSES == 4

IMAGE_SIZE == 224

CLASS_NAMES == <<"glioma", "meningioma", "notumor", "pituitary">>

allowed_types ==
    {"image/jpeg", "image/png", "image/jpg",
     "image/bmp", "image/gif", "image/tiff", "image/webp"}

HTTP_200_OK == 200
HTTP_400_BAD_REQUEST == 400
HTTP_413_REQUEST_ENTITY_TOO_LARGE == 413
HTTP_500_INTERNAL_SERVER_ERROR == 500
HTTP_503_SERVICE_UNAVAILABLE == 503

----------------------------------------------------------------------------
(* Inputs of the environment *)

\* declared media types of an upload: one accepted, one not
ContentTypes == {"image/jpeg", "text/plain"}

\* payload lengths in bytes: around the limit, and a 10 MiB upload
Sizes == {MAX_FILE_SIZE, MAX_FILE_SIZE + 1, 10 * 1024 * 1024}

\* payload bytes: random bytes, and two decodable MRI images
Contents == {"garbage", "mriA", "mriTie"}

\* runtime fault the environment injects into one request
Faults == {"none", "read", "forward"}

\* weight file found at MODEL_PATH at startup
WeightFiles == {"missing", "mismatch", "finite", "nan"}

----------------------------------------------------------------------------
(* Floating point values: finite (fixed point, ONE is 1.0), NaN, +Inf *)

ONE == 100 * 100

Fin(v) == [cls |-> "fin", v |-> v]
NaN == [cls |-> "nan", v |-> 0]
PInf == [cls |-> "inf", v |-> 0]

IsFinite(x) == x.cls = "fin"

\* IEEE comparison: false as soon as one side is NaN
Gt(a, b) ==
    /\ a.cls # "nan" /\ b.cls # "nan"
    /\ \/ a.cls = "inf" /\ b.cls = "fin"
       \/ a.cls = "fin" /\ b.cls = "fin" /\ a.v > b.v

\* exp(-k) in fixed point, k >= 0; underflows to 0
ExpNeg(k) ==
    CASE k = 0 -> 10000
      [] k = 1 -> 3679
      [] k = 2 -> 1353
      [] k = 3 -> 498
      [] k = 4 -> 183
      [] k = 5 -> 67
      [] k = 6 -> 25
      [] k = 7 -> 9
      [] k = 8 -> 3
      [] k = 9 -> 1
      [] OTHER -> 0

RECURSIVE SumTo(_, _)
SumTo(f, n) == IF n = 0 THEN 0 ELSE f[n] + SumTo(f, n - 1)

RECURSIVE MaxTo(_, _)
MaxTo(f, n) ==
    IF n = 1 THEN f[1]
    ELSE LET m == MaxTo(f, n - 1) IN IF f[n] > m THEN f[n] ELSE m

\* F.softmax(outputs, dim=1) on the single row: subtract the row max,
\* exponentiate, divide by the sum.  A NaN or +Inf logit makes the row NaN
\* (inf - inf = NaN, and the NaN sum poisons every quotient).
softmax(row) ==
    LET n == Len(row) IN
    IF \E i \in 1..n : ~IsFinite(row[i])
    THEN [i \in 1..n |-> NaN]
    ELSE LET x == [i \in 1..n |-> row[i].v]
             m == MaxTo(x, n)
             e == [i \in 1..n |-> ExpNeg(m - x[i])]
             s == SumTo(e, n)
         IN [i \in 1..n |-> Fin((e[i] * ONE) \div s)]

LeastIn(S) == CHOOSE i \in S : \A j \in S : i <= j

\* variant of TorchMax that resolves ties to the last maximal index
TorchMaxLast(p) ==
    LET n == Len(p)
        nans == {i \in 1..n : p[i].cls = "nan"}
        tops == {i \in 1..n : \A j \in 1..n : ~Gt(p[j], p[i])}
    IN IF nans # {} THEN LeastIn(nans)
       ELSE CHOOSE i \in tops : \A j \in tops : i >= j

\* torch.max(probabilities_tensor, 1): index of the first maximal value;
\* NaN propagates as the maximum.
TorchMax(p) ==
    LET n == Len(p)
        nans == {i \in 1..n : p[i].cls = "nan"}
        tops == {i \in 1..n : \A j \in 1..n : ~Gt(p[j], p[i])}
    IN IF nans # {} THEN LeastIn(nans) ELSE LeastIn(tops)

Min2(a, b) == IF a < b THEN a ELSE b

\* {name: prob for name, prob in zip(config.CLASS_NAMES, probabilities_list)}
ZipScores(p) ==
    LET n == Min2(Len(CLASS_NAMES), Len(p)) IN
    [name \in {CLASS_NAMES[i] : i \in 1..n} |->
        p[CHOOSE i \in 1..n : CLASS_NAMES[i] = name]]

\* predictor.predict from the logits on: softmax, max, label, score table
Classify(row) ==
    LET probabilities == softmax(row)
        predicted_idx == TorchMax(probabilities)
    IN [predicted_class |-> CLASS_NAMES[predicted_idx],
        probabilities |-> ZipScores(probabilities)]

----------------------------------------------------------------------------
(* model_loader.py *)

None == [weights |-> "None", training |-> FALSE]

\* load_model: create the architecture, read the weight file, load the state
\* dict (strict), switch to evaluation mode.  A missing file makes torch.load
\* raise; weights of another shape make load_state_dict raise; non-finite
\* weights load without complaint.
load_model(file) ==
    LET created == [weights |-> "random", training |-> TRUE] IN
    IF file = "missing" THEN [exc |-> "Exception", model |-> None]
    ELSE IF file = "mismatch" THEN [exc |-> "Exception", model |-> None]
    ELSE LET loaded == [created EXCEPT !.weights = file]
         IN [exc |-> "none", model |-> [loaded EXCEPT !.training = FALSE]]

----------------------------------------------------------------------------
(* The dict ml_models *)

EmptyDict == [k \in {} |-> None]

DictSet(d, key, val) ==
    [k \in (DOMAIN d) \cup {key} |-> IF k = key THEN val ELSE d[k]]

DictGet(d, key) == IF key \in DOMAIN d THEN d[key] ELSE None

----------------------------------------------------------------------------
(* image_utils.py *)

NoTensor == [shape |-> <<>>, px |-> "None"]

\* preprocess_image: Image.open raises on bytes that are no image; there is
\* no handler inside, and no path returns None.
preprocess_image(image_bytes) ==
    IF image_bytes = "garbage"
    THEN [exc |-> "Exception", tensor |-> NoTensor]
    ELSE [exc |-> "none",
          tensor |-> [shape |-> <<1, 3, IMAGE_SIZE, IMAGE_SIZE>>,
                      px |-> image_bytes]]

----------------------------------------------------------------------------
(* predictor.py *)

\* outputs = model(image_tensor): the logits of the network.  Non-finite
\* weights give NaN logits for every image.
Forward(model, image_tensor) ==
    IF model.weights = "nan" THEN <<NaN, NaN, NaN, NaN>>
    ELSE IF image_tensor.px = "mriA" THEN <<Fin(2), Fin(0), Fin(1), Fin(0)>>
    ELSE <<Fin(1), Fin(2), Fin(2), Fin(0)>>

\* variant of ModelEval that leaves the shared instance in training mode
ModelTrain(model) == [model EXCEPT !.training = TRUE]

\* model.eval(): sets the training flag of the shared instance
ModelEval(model) == [model EXCEPT !.training = FALSE]

\* predict(model, image_tensor): model is the (mutated) shared instance.
predict(model, image_tensor, fault) ==
    LET m == ModelEval(model) IN
    IF model = None
    THEN [exc |-> "Exception", model |-> model,
          predicted_class |-> "", probabilities |-> <<>>]
    ELSE IF fault = "forward"
    THEN [exc |-> "Exception", model |-> m,
          predicted_class |-> "", probabilities |-> <<>>]
    ELSE LET c == Classify(Forward(m, image_tensor))
         IN [exc |-> "none", model |-> m,
             predicted_class |-> c.predicted_class,
             probabilities |-> c.probabilities]

----------------------------------------------------------------------------
(* main.py predict_image *)

NoRequest ==
    [pc |-> "new", content_type |-> "", size |-> 0, bytes |-> "",
     fault |-> "none", store |-> EmptyDict,
     inner_exc |-> "none", inner_status |-> 0,
     exc |-> "none", status |-> 0,
     prediction |-> "", confidence_scores |-> <<>>,
     decoded |-> FALSE, inferred |-> FALSE]

Raise(q, exc, code) == [q EXCEPT !.inner_exc = exc, !.inner_status = code]

\* variant of TooLarge that also refuses a payload of exactly the limit
TooLargeGe(file_size) == file_size >= MAX_FILE_SIZE

\* line 122: if file_size > MAX_FILE_SIZE
TooLarge(file_size) == file_size > MAX_FILE_SIZE

\* variant of ModelMissing without the availability check
ModelMissingNever(model) == FALSE

\* line 139: if model is None
ModelMissing(model) == model = None

\* lines 117-156: the body of the try block, run on request q with the
\* environment fault and the dict d; model is what the dict's instance is
\* left as.
TryBody(q, d) ==
    LET keep == DictGet(d, "brain_tumor_model") IN
    IF q.fault = "read"
    THEN [q |-> Raise(q, "Exception", 0), model |-> keep]
    ELSE IF TooLarge(q.size)
    THEN [q |-> Raise(q, "HTTPException", HTTP_413_REQUEST_ENTITY_TOO_LARGE),
          model |-> keep]
    ELSE LET p == preprocess_image(q.bytes)
             q1 == [q EXCEPT !.decoded = TRUE]
         IN
         IF p.exc # "none"
         THEN [q |-> Raise(q1, "Exception", 0), model |-> keep]
         ELSE IF p.tensor = NoTensor
         THEN [q |-> Raise(q1, "HTTPException", HTTP_400_BAD_REQUEST),
               model |-> keep]
         ELSE IF ModelMissing(keep)
         THEN [q |-> Raise(q1, "HTTPException", HTTP_503_SERVICE_UNAVAILABLE),
               model |-> keep]
         ELSE LET r == predict(keep, p.tensor, q.fault)
                  q2 == [q1 EXCEPT !.inferred = TRUE]
              IN
              IF r.exc # "none"
              THEN [q |-> Raise(q2, "Exception", 0), model |-> r.model]
              ELSE [q |-> [q2 EXCEPT !.status = HTTP_200_OK,
                                     !.prediction = r.predicted_class,
                                     !.confidence_scores = r.probabilities],
                    model |-> r.model]

\* variant of Except without the `except HTTPException: raise he` clause
ExceptAll500(q) ==
    IF q.inner_exc = "none" THEN q
    ELSE [q EXCEPT !.exc = "HTTPException",
                   !.status = HTTP_500_INTERNAL_SERVER_ERROR]

\* lines 158-165: the except clauses
Except(q) ==
    IF q.inner_exc = "HTTPException"
    THEN [q EXCEPT !.exc = "HTTPException", !.status = q.inner_status]
    ELSE IF q.inner_exc = "Exception"
    THEN [q EXCEPT !.exc = "HTTPException",
                   !.status = HTTP_500_INTERNAL_SERVER_ERROR]
    ELSE q

\* lines 105-119: type validation, up to the await of file.read()
predict_image_begin(r) ==
    /\ phase # "exited"
    /\ reqs[r].pc = "new"
    /\ \E ct \in ContentTypes, n \in Sizes, b \in Contents :
         LET q == [reqs[r] EXCEPT !.content_type = ct, !.size = n, !.bytes = b]
         IN
         IF q.content_type \notin allowed_types
         THEN reqs' = [reqs EXCEPT ![r] =
                          [q EXCEPT !.pc = "done",
                                    !.store = ml_models,
                                    !.exc = "HTTPException",
                                    !.status = HTTP_400_BAD_REQUEST]]
         ELSE reqs' = [reqs EXCEPT ![r] = [q EXCEPT !.pc = "reading"]]
    /\ UNCHANGED <<phase, ml_models, loads, load_result, outputs, result>>

\* lines 119-165: from the completion of file.read() to the response
predict_image_resume(r) ==
    /\ phase # "exited"
    /\ reqs[r].pc = "reading"
    /\ \E f \in Faults :
         LET q == [reqs[r] EXCEPT !.fault = f, !.store = ml_models]
             t == TryBody(q, ml_models)
         IN
         /\ reqs' = [reqs EXCEPT ![r] = [Except(t.q) EXCEPT !.pc = "done"]]
         /\ ml_models' = IF "brain_tumor_model" \in DOMAIN ml_models
                         THEN DictSet(ml_models, "brain_tumor_model", t.model)
                         ELSE ml_models
    /\ UNCHANGED <<phase, loads, load_result, outputs, result>>

----------------------------------------------------------------------------
(* main.py lifespan *)

NotLoaded == [exc |-> "pending", model |-> None]

\* variant of StartupPhase whose except clause logs and goes on to yield
StartupPhaseNoExit(l) == "serving"

\* lines 59-63: where lifespan goes after the try block; the except clause
\* ends the process with sys.exit(1)
StartupPhase(l) == IF l.exc = "none" THEN "serving" ELSE "exited"

\* lines 52-63: load the model into ml_models, or sys.exit(1)
lifespan_startup ==
    /\ phase = "starting"
    /\ \E file \in WeightFiles :
         LET l == load_model(file) IN
         /\ load_result' = l
         /\ phase' = StartupPhase(l)
         /\ IF l.exc = "none"
            THEN /\ ml_models' = DictSet(ml_models, "brain_tumor_model", l.model)
                 /\ loads' = loads + 1
            ELSE UNCHANGED <<ml_models, loads>>
    /\ UNCHANGED <<reqs, outputs, result>>

\* variant of Clear that leaves the dict as it is
ClearKeep(d) == d

\* line 65: ml_models.clear()
Clear(d) == EmptyDict

\* lines 65-66: shutdown
lifespan_shutdown ==
    /\ phase = "serving"
    /\ ml_models' = Clear(ml_models)
    /\ phase' = "stopped"
    /\ UNCHANGED <<loads, load_result, reqs, outputs, result>>

----------------------------------------------------------------------------
(* The worker *)

NoResult == [predicted_class |-> "", probabilities |-> <<>>]

Init ==
    /\ phase = "starting"
    /\ ml_models = EmptyDict
    /\ loads = 0
    /\ load_result = NotLoaded
    /\ reqs = [r \in Requests |-> NoRequest]
    /\ outputs = <<>>
    /\ result = NoResult

Next ==
    \/ lifespan_startup
    \/ lifespan_shutdown
    \/ \E r \in Requests : predict_image_begin(r)
    \/ \E r \in Requests : predict_image_resume(r)

Spec == Init /\ [][Next]_vars

----------------------------------------------------------------------------
(* predictor.predict on its own, over every logit row *)

LogitValues == {Fin(v) : v \in 0..MaxLogit} \cup {NaN, PInf}

LogitRows == [1..NUM_CLASSES -> LogitValues]

InitPredict ==
    /\ phase = "serving"
    /\ ml_models = EmptyDict
    /\ loads = 0
    /\ load_result = NotLoaded
    /\ reqs = [r \in Requests |-> NoRequest]
    /\ outputs \in LogitRows
    /\ result = NoResult

predict_unit ==
    /\ result = NoResult
    /\ result' = Classify(outputs)
    /\ UNCHANGED <<phase, ml_models, loads, load_result, reqs, outputs>>

NextPredict == predict_unit

SpecPredict == InitPredict /\ [][NextPredict]_vars

----------------------------------------------------------------------------
(* Vocabulary of the properties *)

Done == {r \in Requests : reqs[r].pc = "done"}

\* outcome kind of a finished request, by the status class of its response
OutcomeKind(q) ==
    CASE q.exc = "none" /\ q.status = HTTP_200_OK -> "success"
      [] q.exc = "HTTPException" /\ q.status = HTTP_400_BAD_REQUEST
            -> "rejected-input"
      [] q.exc = "HTTPException" /\ q.status = HTTP_413_REQUEST_ENTITY_TOO_LARGE
            -> "payload-too-large"
      [] q.exc = "HTTPException" /\ q.status = HTTP_503_SERVICE_UNAVAILABLE
            -> "temporarily-unavailable"
      [] q.exc = "HTTPException" /\ q.status = HTTP_500_INTERNAL_SERVER_ERROR
            -> "internal-error"
      [] OTHER -> "unmapped"

OutcomeKinds ==
    {"success", "rejected-input", "payload-too-large",
     "temporarily-unavailable", "internal-error"}

TypeAccepted(q) == q.content_type \in allowed_types

\* the upload was read in full
ReadOk(q) == TypeAccepted(q) /\ q.fault # "read"

\* decoding was attempted on q's bytes and failed
DecodeFailed(q) == q.decoded /\ preprocess_image(q.bytes).exc # "none"

\* q passed type, size and decode validation
Validated(q) == q.decoded /\ preprocess_image(q.bytes).exc = "none"

HoldsModel(d) == DictGet(d, "brain_tumor_model") # None

Labels == {CLASS_NAMES[i] : i \in 1..NUM_CLASSES}

----------------------------------------------------------------------------
\* C1: a request with an accepted media type and a payload within the size
\* limit whose bytes fail to decode ends as rejected-input (HTTP 400), not as
\* internal-error.
C1_DecodeFailureIsRejectedInput ==
    \A r \in Done :
        LET q == reqs[r] IN
        (ReadOk(q) /\ ~TooLarge(q.size) /\ DecodeFailed(q))
            => OutcomeKind(q) = "rejected-input"

\* C2 as stated: every payload of at least 5 MiB + 1 byte ends as
\* payload-too-large with no decode attempt, and a payload of exactly 5 MiB
\* is not rejected for size.
C2_OversizeAlwaysTooLarge ==
    \A r \in Done :
        LET q == reqs[r] IN
        /\ q.size >= MAX_FILE_SIZE + 1
              => OutcomeKind(q) = "payload-too-large" /\ ~q.decoded
        /\ q.size = MAX_FILE_SIZE => OutcomeKind(q) # "payload-too-large"

\* C2 amended: every payload of at least 5 MiB + 1 byte whose declared media
\* type is accepted and whose upload was read without fault ends as
\* payload-too-large whatever its bytes are; no oversized payload is ever
\* decoded or inferred on; a payload of exactly 5 MiB is not rejected for size.
C2_OversizeTooLargeAfterTypeAndRead ==
    \A r \in Done :
        LET q == reqs[r] IN
        /\ (ReadOk(q) /\ q.size >= MAX_FILE_SIZE + 1)
              => OutcomeKind(q) = "payload-too-large"
        /\ q.size >= MAX_FILE_SIZE + 1 => ~q.decoded /\ ~q.inferred
        /\ q.size = MAX_FILE_SIZE => OutcomeKind(q) # "payload-too-large"

\* a 10 MiB valid image was answered with 413 and an image of exactly 5 MiB
\* went on to be decoded
C2_Witness ==
    \E r1, r2 \in Done :
        /\ reqs[r1].size = 10 * 1024 * 1024
        /\ reqs[r1].bytes = "mriA"
        /\ OutcomeKind(reqs[r1]) = "payload-too-large"
        /\ reqs[r2].size = MAX_FILE_SIZE
        /\ reqs[r2].decoded

\* C3: a request that passed type, size and decode validation while the dict
\* held no model ends as temporarily-unavailable (HTTP 503), a kind of its
\* own, and predict was not invoked for it.
C3_NoModelIsUnavailable ==
    \A r \in Done :
        LET q == reqs[r] IN
        (Validated(q) /\ ~HoldsModel(q.store))
            => /\ OutcomeKind(q) = "temporarily-unavailable"
               /\ q.status = HTTP_503_SERVICE_UNAVAILABLE
               /\ q.status \notin {HTTP_400_BAD_REQUEST,
                                   HTTP_413_REQUEST_ENTITY_TOO_LARGE,
                                   HTTP_500_INTERNAL_SERVER_ERROR}
               /\ ~q.inferred

\* a valid image was refused with 503 by a worker whose dict held no model,
\* and the worker has been through startup and shutdown
C3_Witness ==
    /\ phase = "stopped"
    /\ loads = 1
    /\ \E r \in Done :
        /\ Validated(reqs[r])
        /\ ~HoldsModel(reqs[r].store)
        /\ reqs[r].status = HTTP_503_SERVICE_UNAVAILABLE

\* C4: while the dict holds no model, a request with an unsupported media
\* type, an oversized payload or undecodable bytes still ends with its own
\* type/size/format outcome (rejected-input or payload-too-large).
C4_ValidationErrorsBeforeModelCheck ==
    \A r \in Done :
        LET q == reqs[r] IN
        (/\ ~HoldsModel(q.store)
         /\ \/ ~TypeAccepted(q)
            \/ ReadOk(q) /\ TooLarge(q.size)
            \/ DecodeFailed(q))
            => OutcomeKind(q) \in {"rejected-input", "payload-too-large"}

\* C5: a load_model that raised has ended the process, so the phase in which
\* requests are accepted is only ever entered with the loaded model in
\* ml_models.
C5_FailFastStartup ==
    /\ load_result.exc \notin {"none", "pending"} => phase = "exited"
    /\ phase = "serving"
          => /\ load_result.exc = "none"
             /\ HoldsModel(ml_models)
             /\ ml_models["brain_tumor_model"] = load_result.model

\* load_model raised and the process is gone
C5_Witness ==
    /\ phase = "exited"
    /\ load_result.exc = "Exception"
    /\ ~HoldsModel(ml_models)

\* C6: a failure of the forward pass ends as internal-error, and NaN/Inf
\* logits never end in a success response with non-finite scores.
C6_ForwardFailuresAreInferenceErrors ==
    \A r \in Done :
        LET q == reqs[r] IN
        /\ (q.inferred /\ q.fault = "forward")
              => OutcomeKind(q) = "internal-error"
        /\ OutcomeKind(q) = "success"
              => \A name \in DOMAIN q.confidence_scores :
                    IsFinite(q.confidence_scores[name])

\* C7: a finished request has exactly one of the five outcome kinds; no bare
\* exception is left unmapped, a fault that is no HTTPException becomes
\* internal-error, and an HTTPException of an inner stage keeps its status.
C7_EveryOutcomeMapped ==
    \A r \in Done :
        LET q == reqs[r] IN
        /\ OutcomeKind(q) \in OutcomeKinds
        /\ q.exc \in {"none", "HTTPException"}
        /\ q.inner_exc = "HTTPException"
              => q.exc = "HTTPException" /\ q.status = q.inner_status
        /\ q.inner_exc = "Exception" => OutcomeKind(q) = "internal-error"
        /\ q.inner_exc = "none" /\ TypeAccepted(q) => OutcomeKind(q) = "success"

\* one request left the try block with a 413 HTTPException and kept it,
\* another left it with a bare exception and was answered 500
C7_Witness ==
    \E r1, r2 \in Done :
        /\ reqs[r1].inner_exc = "HTTPException"
        /\ reqs[r1].status = HTTP_413_REQUEST_ENTITY_TOO_LARGE
        /\ reqs[r2].inner_exc = "Exception"
        /\ reqs[r2].status = HTTP_500_INTERNAL_SERVER_ERROR

\* C8: the result of predict over 4 logits has one score per label, the score
\* of label i being output i of the softmax, and the predicted label is the
\* first one that no other score exceeds (ties go to the lowest index).
C8_ScoresAndArgmax ==
    result # NoResult =>
        LET p == softmax(outputs) IN
        /\ DOMAIN result.probabilities = Labels
        /\ Cardinality(DOMAIN result.probabilities) = NUM_CLASSES
        /\ \A i \in 1..NUM_CLASSES :
              result.probabilities[CLASS_NAMES[i]] = p[i]
        /\ \E i \in 1..NUM_CLASSES :
              /\ result.predicted_class = CLASS_NAMES[i]
              /\ \A j \in 1..NUM_CLASSES : ~Gt(p[j], p[i])
              /\ \A j \in 1..(i - 1) : Gt(p[i], p[j])

\* labels 2 and 3 tie for the maximum and label 2 was predicted
C8_Witness ==
    /\ outputs = <<Fin(1), Fin(2), Fin(2), Fin(0)>>
    /\ result # NoResult
    /\ result.probabilities["meningioma"] = result.probabilities["notumor"]
    /\ Gt(result.probabilities["meningioma"], result.probabilities["glioma"])
    /\ result.predicted_class = "meningioma"

\* C9: ml_models receives a model at most once, only in the startup step and
\* only when load_model returned; a failed startup is final; while serving the
\* dict keeps the same model; shutdown leaves it empty, for good.
C9_Lifecycle ==
    [][ /\ (~HoldsModel(ml_models) /\ HoldsModel(ml_models'))
            => /\ phase = "starting" /\ phase' = "serving"
               /\ load_result'.exc = "none"
               /\ loads = 0
        /\ loads' <= 1
        /\ phase = "exited" => phase' = "exited" /\ ~HoldsModel(ml_models')
        /\ phase' = "serving" => phase \in {"starting", "serving"}
        /\ (phase = "serving" /\ phase' = "serving")
            => ml_models' = ml_models /\ HoldsModel(ml_models)
        /\ phase = "stopped" => phase' = "stopped"
        /\ phase' = "stopped" => ml_models' = EmptyDict
      ]_vars

\* the model was loaded, a request ran inference on it, and shutdown
\* emptied the dict
C9_Witness ==
    /\ phase = "stopped"
    /\ loads = 1
    /\ ml_models = EmptyDict
    /\ \E r \in Done : reqs[r].inferred /\ reqs[r].status = HTTP_200_OK

\* C10: no step of a request changes ml_models or the model in it, and two
\* requests with the same input that ran against the same dict got the same
\* response, whatever ran in between.
C10_RequestsDoNotWriteStore ==
    /\ [][reqs' # reqs => ml_models' = ml_models]_vars
    /\ [](\A r1, r2 \in Done :
            (/\ reqs[r1].content_type = reqs[r2].content_type
             /\ reqs[r1].size = reqs[r2].size
             /\ reqs[r1].bytes = reqs[r2].bytes
             /\ reqs[r1].fault = reqs[r2].fault
             /\ reqs[r1].store = reqs[r2].store)
            => reqs[r1] = reqs[r2])

\* two requests both ran inference on the loaded model
C10_Witness ==
    /\ HoldsModel(ml_models)
    /\ \E r1, r2 \in Done :
        /\ r1 # r2
        /\ reqs[r1].inferred /\ reqs[r2].inferred
        /\ reqs[r1].bytes # reqs[r2].bytes

====
